---- MODULE Spec2Model ----
(***************************************************************************)
(* DrinkTrack server (src/unnamed/part_001, the server with the prediction *)
(* game; src/server.js is its earlier version without participants).       *)
(*                                                                         *)
(* The in-memory `state` object, the Express handlers that mutate it, the  *)
(* snapshot manager (saveSnapshot / restoreSnapshot over a directory), the *)
(* aggregator getAggregatedStats, the awards and the SSE clients.          *)
(*                                                                         *)
(* Conventions                                                             *)
(*  - an instant is its epoch value in milliseconds; `at` fields hold the  *)
(*    ISO string of Date, which round-trips to the same millisecond, so an *)
(*    `at` is modelled by that integer;                                    *)
(*  - a string id is "" when the JSON field is absent (falsy in JS);       *)
(*  - an optional numeric JSON field is <<>> when absent and <<v>> when    *)
(*    present;                                                             *)
(*  - emoji, imageUrl, color and avatar are carried through by the code    *)
(*    without any decision depending on them and are left out.             *)
(***************************************************************************)
EXTENDS Integers, Sequences, FiniteSets, TLC

VARIABLES
    state,      \* the in-memory state object (part_001:277-294)
    now,        \* Date.now(), milliseconds
    resp,       \* what the last handler answered and what it broadcast
    phase,      \* "starting" (start() before listen), "serving", "down"
    dirExists,  \* existsSync(SNAPSHOT_DIR)
    dir,        \* the snapshot directory: file name -> file content
    saver,      \* the running saveSnapshot() calls, one per caller
    restorer,   \* the running restoreSnapshot() call
    audit,      \* history kept for the properties only
    stats,      \* the 'stats' event last sent to a client connecting to /events
    hub         \* sseClients and the responses of GET /events it holds or held

vars == <<state, now, resp, phase, dirExists, dir, saver, restorer, audit, stats, hub>>
fsVars == <<dirExists, dir, saver, restorer, audit>>

-----------------------------------------------------------------------------
(* Bounds of the model *)

MaxParticipants == 2
MaxPredictions == 1
MaxConsumptions == 2
MaxEvents == 1
MaxDrinks == 1
MaxTime == 1
MaxBets == 3
MaxDrunk == 1

-----------------------------------------------------------------------------
(* Values *)

Null == "null"

\* the seeded drinks (part_001:278-285)
SeedDrinks == <<"Beer", "Wine", "Whisky", "Cocktail", "Longdrink", "Sparkling">>

\* String.prototype.trim on the strings the model uses
Trim(s) ==
    CASE s = " "    -> ""
      [] s = " rum" -> "rum"
      [] s = " beer" -> "beer"
      [] s = " al"  -> "al"
      [] OTHER      -> s

\* String.prototype.toLowerCase on the strings the model uses
KeepCase(s) == s
Lower(s) ==
    CASE s = "Beer" -> "beer"
      [] s = "Rum"  -> "rum"
      [] s = "Al"   -> "al"
      [] s = "Bo"   -> "bo"
      [] OTHER      -> s

\* generateId(): a fresh random token; the n-th one drawn for a collection
ParticipantIds == <<"p1", "p2", "p3", "p4">>
PredictionIds == <<"q1", "q2", "q3", "q4", "q5">>
generateId(pool, used) == pool[used + 1]

\* hashPasscode(): sha256 hex digest, injective on the passcodes used
hashPasscode(passcode) ==
    CASE passcode = "a" -> "sha256(a)"
      [] passcode = "b" -> "sha256(b)"
      [] passcode = " " -> "sha256( )"
      [] OTHER          -> "sha256()"

\* the request bodies the model sends
DrinkNameInputs == {"", " ", "Beer", "beer", " beer", "Rum", " rum"}
ConsumeNameInputs == {"", "Beer", "Rum"}
LabelInputs == {"", " ", "Pong"}
PasscodeInputs == {"", "a", "b"}
ParticipantNameInputs == {"", "Al", " al", "Bo"}
IdInputs == {"", "p1", "p2"}
NumberInputs == {<<>>, <<0>>, <<1>>}

InitialState ==
    [ drinks        |-> SeedDrinks,
      consumptions  |-> <<>>,
      events        |-> <<>>,
      participants  |-> <<>>,
      predictions   |-> <<>>,
      eventSettings |-> [passcodeHash |-> Null, predictionsLocked |-> FALSE] ]

-----------------------------------------------------------------------------
(* Helpers over sequences *)

Range(seq) == {seq[i] : i \in DOMAIN seq}
Min(S) == CHOOSE x \in S : \A y \in S : x <= y
Max(S) == CHOOSE x \in S : \A y \in S : x >= y

\* Array.prototype.find over the matching indices: the first match, 0 when none
Find(matches) == IF matches = {} THEN 0 ELSE Min(matches)

\* res.status(..).json(..) together with the broadcastSSE calls of the handler
Reply(op, req, status, events) ==
    [op |-> op, req |-> req, status |-> status, events |-> events, body |-> <<>>]

Serving == phase = "serving"

\* if (state.eventSettings.predictionsLocked)
NeverLocked(s) == FALSE
predictionsLocked(s) == s.eventSettings.predictionsLocked

-----------------------------------------------------------------------------
(* The statistics of the last hour: getAggregatedStats *)

\* the buckets in the order the Map got them: newest minute first
RECURSIVE InsertionOrder(_)
InsertionOrder(keys) ==
    IF keys = {} THEN <<>>
    ELSE LET first == CHOOSE k \in keys : \A j \in keys : k >= j
         IN  <<first>> \o InsertionOrder(keys \ {first})

\* .sort((a, b) => new Date(a.timestamp) - new Date(b.timestamp))
RECURSIVE SortAsc(_)
SortAsc(keys) ==
    IF keys = {} THEN <<>>
    ELSE LET first == CHOOSE k \in keys : \A j \in keys : k <= j
         IN  <<first>> \o SortAsc(keys \ {first})

\* getAggregatedStats() called at instant t on the state s. Math.floor is \div;
\* a bucket is keyed by its minute and carries the instant that minute starts
getAggregatedStats(s, t) ==
    LET sixtyMinutesAgo == t - 60 * 60 * 1000
        recentConsumptions ==
            SelectSeq(s.consumptions, LAMBDA c : c.at >= sixtyMinutesAgo)
        bucketKeys == {(t - i * 60 * 1000) \div (60 * 1000) : i \in 0..59}
        InBucket(key) ==
            {j \in DOMAIN recentConsumptions :
                 recentConsumptions[j].at \div (60 * 1000) = key}
        Bucket(key) ==
            [timestamp |-> key * 60 * 1000,
             drinks |-> [d \in {recentConsumptions[j].drinkName : j \in InBucket(key)} |->
                            Cardinality({j \in InBucket(key) :
                                             recentConsumptions[j].drinkName = d})]]
        sortedKeys == SortAsc(bucketKeys)
    IN  [buckets |-> [i \in DOMAIN sortedKeys |-> Bucket(sortedKeys[i])],
         recentEvents |-> SelectSeq(s.events, LAMBDA e : e.at >= sixtyMinutesAgo)]

-----------------------------------------------------------------------------
(* The SSE hub: sseClients holds the responses of the open GET /events       *)
(* requests. A response is numbered by the order of its request; what was    *)
(* written to it is kept as its first message, its latest message and the    *)
(* messages of the latest step (burst). The data of a message is kept for    *)
(* 'stats' and 'consumption'.                                                *)

MaxClients == 2

NoHub == [sseClients |-> <<>>, res |-> <<>>, tried |-> {}]

\* a response of GET /events before anything is written to it
NewResponse ==
    [first |-> <<>>, last |-> <<>>, burst |-> <<>>, throws |-> FALSE,
     heartbeatInterval |-> TRUE, closed |-> FALSE]

\* a new handler or timer callback begins: nothing is written in it yet
NextStep(hb) ==
    [hb EXCEPT !.tried = {},
               !.res = [r \in DOMAIN hb.res |-> [hb.res[r] EXCEPT !.burst = <<>>]]]

\* `event: ${event}\ndata: ${JSON.stringify(data)}\n\n`
Message(event, s, t) ==
    [event |-> event,
     data |-> IF event = "stats" THEN getAggregatedStats(s, t)
              ELSE IF event = "consumption" /\ s.consumptions # <<>>
              THEN s.consumptions[Len(s.consumptions)]
              ELSE <<>>]

\* res.write(message): throws, or the message goes out on the response
Write(response, message) ==
    IF response.throws THEN response
    ELSE [response EXCEPT !.first = IF @ = <<>> THEN message ELSE @,
                          !.last = message,
                          !.burst = Append(@, message)]

\* a forEach that an exception leaves: the clients behind the failing one are
\* not written to
ForEachUntilThrow(hb, message) ==
    LET failing == {i \in DOMAIN hb.sseClients : hb.res[hb.sseClients[i]].throws}
        reached == {hb.sseClients[i] : i \in {j \in DOMAIN hb.sseClients :
                                                 \A k \in failing : j <= k}}
    IN  [hb EXCEPT
            !.res = [r \in DOMAIN hb.res |->
                        IF r \in reached THEN Write(hb.res[r], message) ELSE hb.res[r]],
            !.tried = @ \cup reached]

\* broadcastSSE(event, data): a write to every client, each in its own try/catch
ForEachClient(hb, message) ==
    [hb EXCEPT
        !.res = [r \in DOMAIN hb.res |->
                    IF r \in Range(hb.sseClients)
                    THEN Write(hb.res[r], message) ELSE hb.res[r]],
        !.tried = @ \cup Range(hb.sseClients)]

broadcastSSE(hb, event, s, t) ==
    LET message == Message(event, s, t)
    IN  IF hb.sseClients = <<>> THEN hb ELSE ForEachClient(hb, message)

\* the broadcastSSE calls of one handler, in their order
RECURSIVE Broadcasts(_, _, _, _)
Broadcasts(hb, events, s, t) ==
    IF events = <<>> THEN hb
    ELSE Broadcasts(broadcastSSE(hb, Head(events), s, t), Tail(events), s, t)

\* a handler that broadcasts the statistics also when it refuses the request
PublishStatsAnyway(hb, events, s, t) ==
    Broadcasts(NextStep(hb),
               IF events = <<>> THEN <<"stats">> ELSE events, s, t)

\* a handler that broadcasts what it is about to do, before it changes the state
PublishBeforeCommit(hb, events, s, t) == Broadcasts(NextStep(hb), events, state, t)

Publish(hb, events, s, t) == Broadcasts(NextStep(hb), events, s, t)

-----------------------------------------------------------------------------
(* Mutating handlers *)

\* POST /drinks
PostDrinks(name) ==
    LET Answer(status, events) ==
            Reply("POST /drinks", <<name>>, status, events)
    IN
    /\ Serving
    /\ IF name = "" \/ Trim(name) = ""
       THEN /\ resp' = Answer(400, <<>>)
            /\ UNCHANGED state
       ELSE IF \E i \in DOMAIN state.drinks : Lower(state.drinks[i]) = Lower(name)
       THEN /\ resp' = Answer(409, <<>>)
            /\ UNCHANGED state
       ELSE /\ Len(state.drinks) < Len(SeedDrinks) + MaxDrinks
            /\ state' = [state EXCEPT !.drinks = Append(@, Trim(name))]
            /\ resp' = Answer(201, <<"drink-added">>)
    /\ hub' = Publish(hub, resp'.events, state', now)
    /\ UNCHANGED <<now, phase, fsVars, stats>>

\* a POST /consume that puts the record in front of the log (unshift for push)
ConsumeInFront(drinkName, participantId) ==
    /\ Serving
    /\ drinkName \in Range(state.drinks)
    /\ Len(state.consumptions) < MaxConsumptions
    /\ state' = [state EXCEPT !.consumptions =
           <<[drinkName |-> drinkName, participantId |-> "", at |-> now]>> \o @]
    /\ resp' = Reply("POST /consume", <<drinkName, participantId>>, 201,
                     <<"consumption", "stats">>)
    /\ hub' = Publish(hub, resp'.events, state', now)
    /\ UNCHANGED <<now, phase, fsVars, stats>>

\* POST /consume. Only drinkName is taken from the body: a participantId sent
\* along is neither looked at nor stored
PostConsume(drinkName, participantId) ==
    LET Answer(status, events) ==
            Reply("POST /consume", <<drinkName, participantId>>, status, events)
    IN
    /\ Serving
    /\ IF drinkName = ""
       THEN /\ resp' = Answer(400, <<>>)
            /\ UNCHANGED state
       ELSE IF ~(\E i \in DOMAIN state.drinks : state.drinks[i] = drinkName)
       THEN /\ resp' = Answer(404, <<>>)
            /\ UNCHANGED state
       ELSE /\ Len(state.consumptions) < MaxConsumptions
            /\ state' = [state EXCEPT !.consumptions =
                   Append(@, [drinkName |-> drinkName, participantId |-> "", at |-> now])]
            /\ resp' = Answer(201, <<"consumption", "stats">>)
    /\ hub' = Publish(hub, resp'.events, state', now)
    /\ UNCHANGED <<now, phase, fsVars, stats>>

\* POST /api/consume-participant
PostConsumeParticipant(drinkName, participantId) ==
    LET Answer(status, events) ==
            Reply("POST /api/consume-participant", <<drinkName, participantId>>,
                  status, events)
    IN
    /\ Serving
    /\ IF drinkName = "" \/ participantId = ""
       THEN /\ resp' = Answer(400, <<>>)
            /\ UNCHANGED state
       ELSE IF \/ ~(\E i \in DOMAIN state.drinks : state.drinks[i] = drinkName)
               \/ ~(\E i \in DOMAIN state.participants :
                        state.participants[i].id = participantId)
       THEN /\ resp' = Answer(404, <<>>)
            /\ UNCHANGED state
       ELSE /\ Len(state.consumptions) < MaxConsumptions
            /\ state' = [state EXCEPT !.consumptions =
                   Append(@, [drinkName |-> drinkName, participantId |-> participantId,
                              at |-> now])]
            /\ resp' = Answer(201, <<"consumption", "stats">>)
    /\ hub' = Publish(hub, resp'.events, state', now)
    /\ UNCHANGED <<now, phase, fsVars, stats>>

\* POST /event
PostEvent(label) ==
    LET Answer(status, events) ==
            Reply("POST /event", <<label>>, status, events)
    IN
    /\ Serving
    /\ IF label = "" \/ Trim(label) = ""
       THEN /\ resp' = Answer(400, <<>>)
            /\ UNCHANGED state
       ELSE /\ Len(state.events) < MaxEvents
            /\ state' = [state EXCEPT !.events =
                   Append(@, [label |-> Trim(label), at |-> now])]
            /\ resp' = Answer(201, <<"event", "stats">>)
    /\ hub' = Publish(hub, resp'.events, state', now)
    /\ UNCHANGED <<now, phase, fsVars, stats>>

\* POST /api/passcode
PostPasscode(passcode) ==
    LET Answer(status, events) ==
            Reply("POST /api/passcode", <<passcode>>, status, events)
    IN
    /\ Serving
    /\ IF passcode = "" \/ Trim(passcode) = ""
       THEN /\ resp' = Answer(400, <<>>)
            /\ UNCHANGED state
       ELSE /\ state' = [state EXCEPT !.eventSettings.passcodeHash = hashPasscode(passcode)]
            /\ resp' = Answer(200, <<>>)
    /\ hub' = Publish(hub, resp'.events, state', now)
    /\ UNCHANGED <<now, phase, fsVars, stats>>

\* POST /api/participants
PostParticipants(name, selfEstimate) ==
    LET Answer(status, events) ==
            Reply("POST /api/participants", <<name, selfEstimate>>, status, events)
    IN
    /\ Serving
    /\ IF name = "" \/ Trim(name) = ""
       THEN /\ resp' = Answer(400, <<>>)
            /\ UNCHANGED state
       ELSE LET existing == Find({i \in DOMAIN state.participants :
                        Lower(state.participants[i].name) = Lower(Trim(name))})
            IN  IF existing # 0
                THEN /\ state' = [state EXCEPT !.participants[existing].selfEstimate =
                            IF selfEstimate # <<>> THEN selfEstimate[1] ELSE @]
                     /\ resp' = Answer(200, <<"participant-updated">>)
                ELSE /\ Len(state.participants) < MaxParticipants
                     /\ state' = [state EXCEPT !.participants = Append(@,
                            [ id |-> generateId(ParticipantIds, Len(state.participants)),
                              name |-> Trim(name),
                              \* selfEstimate || 0
                              selfEstimate |-> IF selfEstimate = <<>> THEN 0
                                               ELSE selfEstimate[1] ])]
                     /\ resp' = Answer(201, <<"participant-added">>)
    /\ hub' = Publish(hub, resp'.events, state', now)
    /\ UNCHANGED <<now, phase, fsVars, stats>>

\* PATCH /api/participants/:id
PatchParticipant(id, selfEstimate) ==
    LET Answer(status, events) ==
            Reply("PATCH /api/participants/:id", <<id, selfEstimate>>, status, events)
    IN
    /\ Serving
    /\ LET participant == Find({i \in DOMAIN state.participants :
                                   state.participants[i].id = id})
       IN  IF participant = 0
           THEN /\ resp' = Answer(404, <<>>)
                /\ UNCHANGED state
           ELSE IF predictionsLocked(state)
           THEN /\ resp' = Answer(403, <<>>)
                /\ UNCHANGED state
           ELSE /\ state' = [state EXCEPT !.participants[participant].selfEstimate =
                       IF selfEstimate # <<>> THEN selfEstimate[1] ELSE @]
                /\ resp' = Answer(200, <<"participant-updated">>)
    /\ hub' = Publish(hub, resp'.events, state', now)
    /\ UNCHANGED <<now, phase, fsVars, stats>>

\* p.predictorId === predictorId && p.targetId === targetId
SamePredictor(p, predictorId, targetId) == p.predictorId = predictorId
SamePair(p, predictorId, targetId) ==
    p.predictorId = predictorId /\ p.targetId = targetId

\* POST /api/predictions
PostPredictions(predictorId, targetId, predictedDrinks) ==
    LET Answer(status, events) ==
            Reply("POST /api/predictions", <<predictorId, targetId, predictedDrinks>>,
                  status, events)
    IN
    /\ Serving
    /\ IF predictorId = "" \/ targetId = "" \/ predictedDrinks = <<>>
       THEN /\ resp' = Answer(400, <<>>)
            /\ UNCHANGED state
       ELSE IF predictionsLocked(state)
       THEN /\ resp' = Answer(403, <<>>)
            /\ UNCHANGED state
       ELSE LET existing == Find({i \in DOMAIN state.predictions :
                        SamePair(state.predictions[i], predictorId, targetId)})
            IN  IF existing # 0
                THEN /\ state' = [state EXCEPT !.predictions[existing].predictedDrinks =
                            predictedDrinks[1]]
                     /\ resp' = Answer(200, <<"prediction-updated">>)
                ELSE /\ Len(state.predictions) < MaxPredictions
                     /\ state' = [state EXCEPT !.predictions = Append(@,
                            [ id |-> generateId(PredictionIds, Len(state.predictions)),
                              predictorId |-> predictorId,
                              targetId |-> targetId,
                              predictedDrinks |-> predictedDrinks[1] ])]
                     /\ resp' = Answer(201, <<"prediction-added">>)
    /\ hub' = Publish(hub, resp'.events, state', now)
    /\ UNCHANGED <<now, phase, fsVars, stats>>

\* POST /api/event-settings/lock-predictions
PostLockPredictions(locked) ==
    LET Answer(status, events) ==
            Reply("POST /api/event-settings/lock-predictions", <<locked>>, status, events)
    IN
    /\ Serving
    /\ state' = [state EXCEPT !.eventSettings.predictionsLocked = locked]
    /\ resp' = Answer(200, <<"predictions-lock-changed">>)
    /\ hub' = Publish(hub, resp'.events, state', now)
    /\ UNCHANGED <<now, phase, fsVars, stats>>

\* the wall clock advances
Tick ==
    /\ now < MaxTime
    /\ now' = now + 1
    /\ UNCHANGED <<state, resp, phase, fsVars, stats, hub>>

-----------------------------------------------------------------------------
(* The prediction game on a serving process: participants, predictions,   *)
(* the lock and the passcode                                               *)

NoReply == Reply("", <<>>, 0, <<>>)

Init ==
    /\ state = InitialState
    /\ now = 0
    /\ resp = NoReply
    /\ phase = "serving"
    /\ dirExists = FALSE
    /\ dir = <<>>
    /\ saver = <<>>
    /\ restorer = <<>>
    /\ audit = <<>>
    /\ stats = <<>>
    /\ hub = NoHub

Next ==
    \/ \E passcode \in PasscodeInputs : PostPasscode(passcode)
    \/ \E name \in ParticipantNameInputs, est \in NumberInputs :
           PostParticipants(name, est)
    \/ \E id \in IdInputs, est \in NumberInputs : PatchParticipant(id, est)
    \/ \E p \in IdInputs, t \in IdInputs, d \in NumberInputs : PostPredictions(p, t, d)
    \/ \E locked \in BOOLEAN : PostLockPredictions(locked)

Spec == Init /\ [][Next]_vars

-----------------------------------------------------------------------------
(* The snapshot directory *)

\* process.env.SNAPSHOT_MAX_FILES (default 30, part_001:270)
SNAPSHOT_MAX_FILES == 2

\* `snapshot-${timestamp}.json` and `${filename}.tmp`, timestamp the ISO string of
\* the call's instant with ':' and '.' replaced: a fixed-width string whose
\* lexicographic order is the order of the instants
FinalName(stamp) == [stamp |-> stamp, ext |-> "json"]
TempName(stamp) == [stamp |-> stamp, ext |-> "json.tmp"]

\* f.startsWith('snapshot-') && f.endsWith('.json')
IsSnapshotName(name) == name.ext = "json"

\* files.filter(..).sort().reverse()
RECURSIVE SortDesc(_)
SortDesc(names) ==
    IF names = {} THEN <<>>
    ELSE LET top == CHOOSE n \in names : \A m \in names : m.stamp <= n.stamp
         IN  <<top>> \o SortDesc(names \ {top})

Snapshots(d) == SortDesc({n \in DOMAIN d : IsSnapshotName(n)})

\* snapshots.slice(SNAPSHOT_MAX_FILES) when snapshots.length > SNAPSHOT_MAX_FILES
KeepOneMore(snapshots) == SubSeq(snapshots, SNAPSHOT_MAX_FILES + 2, Len(snapshots))
ToDelete(snapshots) == SubSeq(snapshots, SNAPSHOT_MAX_FILES + 1, Len(snapshots))

\* the fields of the state object
Fields == {"drinks", "consumptions", "events", "participants", "predictions",
           "eventSettings"}

\* JSON.stringify(state, null, 2): every field of the state, each value as it is
\* (strings, finite numbers, booleans, null, arrays and objects of these)
StringifyWithoutSettings(s) ==
    [kind |-> "json", fields |-> Fields \ {"eventSettings"}, doc |-> s]
Stringify(s) == [kind |-> "json", fields |-> Fields, doc |-> s]

\* bytes that are no JSON text: a file opened (truncated) and not yet, or only
\* partly, written; two writes mixed in one file
Torn == [kind |-> "torn", fields |-> {}, doc |-> InitialState]

\* JSON.parse(data) succeeds
Parses(content) == content.kind = "json"

\* restoredState.drinks && restoredState.consumptions && restoredState.events
AnyStructure(content) == TRUE
ValidStructure(content) == {"drinks", "consumptions", "events"} \subseteq content.fields

\* state = restoredState, then the defaults for the fields that do not exist
ReviveKeepsSettings(content, old) ==
    [ drinks        |-> content.doc.drinks,
      consumptions  |-> content.doc.consumptions,
      events        |-> content.doc.events,
      participants  |-> IF "participants" \in content.fields
                        THEN content.doc.participants ELSE <<>>,
      predictions   |-> IF "predictions" \in content.fields
                        THEN content.doc.predictions ELSE <<>>,
      eventSettings |-> old.eventSettings ]
Revive(content, old) ==
    [ drinks        |-> content.doc.drinks,
      consumptions  |-> content.doc.consumptions,
      events        |-> content.doc.events,
      participants  |-> IF "participants" \in content.fields
                        THEN content.doc.participants ELSE <<>>,
      predictions   |-> IF "predictions" \in content.fields
                        THEN content.doc.predictions ELSE <<>>,
      eventSettings |-> IF "eventSettings" \in content.fields
                        THEN content.doc.eventSettings
                        ELSE [passcodeHash |-> Null, predictionsLocked |-> FALSE] ]

Put(d, name, content) ==
    [n \in DOMAIN d \cup {name} |-> IF n = name THEN content ELSE d[n]]
Remove(d, name) == [n \in DOMAIN d \ {name} |-> d[n]]

-----------------------------------------------------------------------------
(* saveSnapshot() and restoreSnapshot(): one step per await *)

\* who calls saveSnapshot(): the setInterval callback of start(), POST /api/snapshot
Callers == {"timer", "request"}
Other(w) == IF w = "timer" THEN "request" ELSE "timer"

NoFile == FinalName(0)
IdleSaver ==
    [pc |-> "idle", stamp |-> 0, data |-> Torn, raced |-> FALSE, todo |-> <<>>]
IdleRestorer == [pc |-> "idle", who |-> "start", file |-> NoFile]
NoAudit == [alone |-> [w \in Callers |-> FALSE], clean |-> <<>>, expect |-> <<>>]

InFlight(w) == saver[w].pc # "idle"

\* const timestamp = new Date()...; writeFile(tempPath, JSON.stringify(state, null, 2))
\* is called: the text is built now, the file is opened (created or truncated)
BeginWrite(w) ==
    LET sharing == saver[Other(w)].pc = "writeFile" /\ saver[Other(w)].stamp = now
    IN  /\ saver' = [saver EXCEPT
               ![w] = [pc |-> "writeFile", stamp |-> now, data |-> Stringify(state),
                       raced |-> sharing, todo |-> <<>>],
               ![Other(w)].raced = @ \/ sharing]
        /\ dir' = Put(dir, TempName(now), Torn)

\* saveSnapshot() is called: existsSync, mkdir when the directory is missing
CallSave(w) ==
    /\ ~InFlight(w)
    /\ IF dirExists
       THEN BeginWrite(w) /\ UNCHANGED dirExists
       ELSE /\ dirExists' = TRUE
            /\ saver' = [saver EXCEPT ![w] = [IdleSaver EXCEPT !.pc = "mkdir"]]
            /\ UNCHANGED dir
    /\ audit' = [audit EXCEPT
           !.clean = <<>>, !.expect = <<>>,
           !.alone = [x \in Callers |-> x = w /\ ~InFlight(Other(w))]]
    /\ UNCHANGED <<state, now, resp, phase, restorer, stats, hub>>

\* setInterval(async () => { await saveSnapshot(); }, SNAPSHOT_INTERVAL_SEC * 1000)
TimerFires ==
    /\ Serving
    /\ CallSave("timer")

\* POST /api/snapshot
PostSnapshot ==
    /\ Serving
    /\ CallSave("request")

\* saveSnapshot() returns the file name: POST /api/snapshot answers 200 with it,
\* the timer's callback ends
SaveReturns(w) ==
    /\ saver' = [saver EXCEPT ![w] = IdleSaver]
    /\ resp' = IF w = "request"
               THEN Reply("POST /api/snapshot", <<FinalName(saver[w].stamp)>>, 200, <<>>)
               ELSE Reply("timer", <<FinalName(saver[w].stamp)>>, 1, <<>>)
    /\ audit' = [audit EXCEPT
           !.clean = IF audit.alone[w] THEN <<saver[w].data.doc>> ELSE @,
           !.alone = [x \in Callers |-> x # w /\ @[x]]]
    /\ UNCHANGED <<phase, restorer, state>>

\* saveSnapshot() logs and rethrows: POST /api/snapshot answers 500; the timer's
\* async callback has no catch, and the rejection nobody handles ends the process
SaveThrows(w) ==
    /\ dir' = dir
    /\ audit' = [audit EXCEPT !.alone = [x \in Callers |-> x # w /\ @[x]]]
    /\ IF w = "request"
       THEN /\ saver' = [saver EXCEPT ![w] = IdleSaver]
            /\ resp' = Reply("POST /api/snapshot", <<>>, 500, <<>>)
            /\ UNCHANGED <<phase, restorer, state>>
       ELSE /\ saver' = [x \in Callers |-> IdleSaver]
            /\ restorer' = IdleRestorer
            /\ phase' = "down"
            /\ state' = InitialState
            /\ resp' = Reply("timer", <<>>, 0, <<>>)

\* await mkdir(SNAPSHOT_DIR, { recursive: true }) is over
SaveMkdirDone(w) ==
    /\ saver[w].pc = "mkdir"
    /\ BeginWrite(w)
    /\ UNCHANGED <<state, now, resp, phase, dirExists, restorer, audit, stats, hub>>

\* await writeFile(tempPath, ..) is over. The bytes went to the file this call opened:
\* still tempPath, or finalPath when a save of the same millisecond renamed it
\* meanwhile. Two calls that wrote the same file at the same time leave either
\* text or a mix of both.
SaveWritten(w) ==
    /\ saver[w].pc = "writeFile"
    /\ LET target == IF TempName(saver[w].stamp) \in DOMAIN dir
                     THEN TempName(saver[w].stamp) ELSE FinalName(saver[w].stamp)
       IN  IF target \in DOMAIN dir
           THEN \E text \in (IF saver[w].raced THEN {saver[w].data, Torn}
                             ELSE {saver[w].data}) :
                    dir' = Put(dir, target, text)
           ELSE dir' = dir
    /\ saver' = [saver EXCEPT ![w].pc = "rename"]
    /\ UNCHANGED <<state, now, resp, phase, dirExists, restorer, audit, stats, hub>>

\* await rename(tempPath, finalPath) is over
SaveRenamed(w) ==
    /\ saver[w].pc = "rename"
    /\ LET temp == TempName(saver[w].stamp)
       IN  IF temp \in DOMAIN dir
           THEN /\ dir' = Put(Remove(dir, temp), FinalName(saver[w].stamp), dir[temp])
                /\ saver' = [saver EXCEPT ![w].pc = "readdir"]
                /\ UNCHANGED <<state, resp, phase, restorer, audit>>
           ELSE SaveThrows(w)
    /\ UNCHANGED <<now, dirExists, stats, hub>>

\* await readdir(SNAPSHOT_DIR) is over: the snapshots beyond the newest
\* SNAPSHOT_MAX_FILES are to be deleted, newest of them first
SaveListed(w) ==
    /\ saver[w].pc = "readdir"
    /\ dir' = dir
    /\ IF ToDelete(Snapshots(dir)) = <<>>
       THEN SaveReturns(w)
       ELSE /\ saver' = [saver EXCEPT ![w].pc = "unlink",
                                       ![w].todo = ToDelete(Snapshots(dir))]
            /\ UNCHANGED <<state, resp, phase, restorer, audit>>
    /\ UNCHANGED <<now, dirExists, stats, hub>>

\* await unlink(join(SNAPSHOT_DIR, file)) is over
SaveUnlinked(w) ==
    /\ saver[w].pc = "unlink"
    /\ LET file == Head(saver[w].todo)
       IN  IF file \notin DOMAIN dir
           THEN SaveThrows(w)
           ELSE /\ dir' = Remove(dir, file)
                /\ IF Tail(saver[w].todo) = <<>>
                   THEN SaveReturns(w)
                   ELSE /\ saver' = [saver EXCEPT ![w].todo = Tail(@)]
                        /\ UNCHANGED <<state, resp, phase, restorer, audit>>
    /\ UNCHANGED <<now, dirExists, stats, hub>>

\* restoreSnapshot() returns and the caller broadcasts the stats whatever it returned
RestoreReturnsWithStats(who, ok) ==
    /\ restorer' = IdleRestorer
    /\ phase' = IF who = "start" THEN "serving" ELSE phase
    /\ resp' = IF who = "request"
               THEN Reply("POST /api/snapshot/restore", <<>>,
                          IF ok THEN 200 ELSE 404, <<"stats">>)
               ELSE Reply("start", <<>>, IF ok THEN 1 ELSE 0, <<>>)
    /\ hub' = Publish(hub, resp'.events, state', now)
    /\ audit' = [audit EXCEPT !.expect = <<>>]

\* restoreSnapshot() returns: start() goes on to setInterval and app.listen,
\* POST /api/snapshot/restore answers 200 and broadcasts the stats after a
\* restore, 404 without a broadcast otherwise
RestoreReturns(who, ok) ==
    /\ restorer' = IdleRestorer
    /\ phase' = IF who = "start" THEN "serving" ELSE phase
    /\ resp' = IF who = "request"
               THEN Reply("POST /api/snapshot/restore", <<>>,
                          IF ok THEN 200 ELSE 404, IF ok THEN <<"stats">> ELSE <<>>)
               ELSE Reply("start", <<>>, IF ok THEN 1 ELSE 0, <<>>)
    /\ hub' = Publish(hub, resp'.events, state', now)
    /\ audit' = [audit EXCEPT !.expect = <<>>]

\* restoreSnapshot() is called: existsSync, then readdir
CallRestore(who) ==
    /\ restorer.pc = "idle"
    /\ IF dirExists
       THEN /\ restorer' = [IdleRestorer EXCEPT !.pc = "readdir", !.who = who]
            /\ phase' = IF who = "start" THEN "starting" ELSE phase
            /\ resp' = resp
            /\ hub' = hub
            /\ audit' = [audit EXCEPT !.expect = audit.clean]
       ELSE RestoreReturns(who, FALSE)
    /\ UNCHANGED <<now, dirExists, dir, saver, stats>>

\* node server.js: the module is evaluated, start() awaits restoreSnapshot()
Start ==
    /\ phase = "down"
    /\ state' = InitialState
    /\ CallRestore("start")

\* POST /api/snapshot/restore
PostSnapshotRestore ==
    /\ Serving
    /\ state' = state
    /\ CallRestore("request")

\* await readdir(SNAPSHOT_DIR) is over
RestoreListed ==
    /\ restorer.pc = "readdir"
    /\ state' = state
    /\ IF Snapshots(dir) = <<>>
       THEN RestoreReturns(restorer.who, FALSE)
       ELSE /\ restorer' = [restorer EXCEPT !.pc = "readFile",
                                             !.file = Snapshots(dir)[1]]
            /\ UNCHANGED <<resp, phase, audit, hub>>
    /\ UNCHANGED <<now, dirExists, dir, saver, stats>>

\* await readFile(snapshotPath, 'utf8') is over; JSON.parse, the structure check,
\* the assignment of state with the defaults
RestoreRead ==
    /\ restorer.pc = "readFile"
    /\ LET file == restorer.file
           ok == /\ file \in DOMAIN dir
                 /\ Parses(dir[file])
                 /\ ValidStructure(dir[file])
       IN  /\ state' = IF ok THEN Revive(dir[file], state) ELSE state
           /\ RestoreReturns(restorer.who, ok)
    /\ UNCHANGED <<now, dirExists, dir, saver, stats>>

\* the process dies (killed, power loss): memory is gone, the directory stays
Crash ==
    /\ phase \in {"starting", "serving"}
    /\ phase' = "down"
    /\ state' = InitialState
    /\ resp' = NoReply
    /\ saver' = [w \in Callers |-> IdleSaver]
    /\ restorer' = IdleRestorer
    /\ audit' = [audit EXCEPT !.alone = [x \in Callers |-> FALSE], !.expect = <<>>]
    /\ UNCHANGED <<now, dirExists, dir, stats, hub>>

-----------------------------------------------------------------------------
(* The snapshot manager: a process that starts, serves, saves, restores and  *)
(* dies, over a directory that earlier runs (also of src/server.js, whose    *)
(* state had no participants) may have left behind                           *)

EarlierState ==
    [InitialState EXCEPT !.consumptions =
        <<[drinkName |-> "Wine", participantId |-> "", at |-> -3]>>]

\* an artifact written by src/server.js:31,130 (drinks, consumptions, events only)
LegacyArtifact ==
    [kind |-> "json", fields |-> {"drinks", "consumptions", "events"},
     doc |-> EarlierState]

\* a JSON text without the events array
NoEventsArtifact ==
    [kind |-> "json", fields |-> Fields \ {"events"}, doc |-> EarlierState]

Directories ==
    { [exists |-> FALSE, files |-> <<>>],
      [exists |-> TRUE, files |-> Put(<<>>, FinalName(-1), Stringify(EarlierState))],
      [exists |-> TRUE, files |-> Put(Put(<<>>, FinalName(-2), LegacyArtifact),
                                      FinalName(-1), Torn)],
      [exists |-> TRUE, files |-> Put(Put(<<>>, FinalName(-2), Stringify(EarlierState)),
                                      FinalName(-1), NoEventsArtifact)],
      [exists |-> TRUE, files |-> Put(<<>>, FinalName(-1), LegacyArtifact)] }

\* node server.js is about to be run over one of the directories
RestoreInit ==
    /\ state = InitialState
    /\ now = 0
    /\ resp = NoReply
    /\ phase = "down"
    /\ \E d \in Directories : dirExists = d.exists /\ dir = d.files
    /\ saver = [w \in Callers |-> IdleSaver]
    /\ restorer = IdleRestorer
    /\ audit = NoAudit
    /\ stats = <<>>
    /\ hub = NoHub

\* starts, restores and crashes, with the saves that requests ask for
RestoreNext ==
    \/ Start
    \/ RestoreListed
    \/ RestoreRead
    \/ PostSnapshotRestore
    \/ PostSnapshot
    \/ SaveMkdirDone("request")
    \/ SaveWritten("request")
    \/ SaveRenamed("request")
    \/ SaveListed("request")
    \/ SaveUnlinked("request")
    \/ Crash
    \/ Tick
    \/ \E locked \in BOOLEAN : PostLockPredictions(locked)

RestoreSpec == RestoreInit /\ [][RestoreNext]_vars

\* the server is up: started without a directory, or over two snapshots of an
\* earlier run, the newer of which it restored
SaveInit ==
    /\ now = 0
    /\ resp \in {Reply("start", <<>>, 0, <<>>), Reply("start", <<>>, 1, <<>>)}
    /\ phase = "serving"
    /\ IF resp.status = 1
       THEN /\ state = EarlierState
            /\ dirExists = TRUE
            /\ dir = Put(Put(<<>>, FinalName(-2), LegacyArtifact),
                         FinalName(-1), Stringify(EarlierState))
       ELSE /\ state = InitialState
            /\ dirExists = FALSE
            /\ dir = <<>>
    /\ saver = [w \in Callers |-> IdleSaver]
    /\ restorer = IdleRestorer
    /\ audit = NoAudit
    /\ stats = <<>>
    /\ hub = NoHub

\* the timer's saves and the requested ones, side by side, until the process dies
SaveNext ==
    \/ TimerFires
    \/ PostSnapshot
    \/ \E w \in Callers : SaveMkdirDone(w)
    \/ \E w \in Callers : SaveWritten(w)
    \/ \E w \in Callers : SaveRenamed(w)
    \/ \E w \in Callers : SaveListed(w)
    \/ \E w \in Callers : SaveUnlinked(w)
    \/ Crash
    \/ Tick
    \/ \E locked \in BOOLEAN : PostLockPredictions(locked)

SaveSpec == SaveInit /\ [][SaveNext]_vars

-----------------------------------------------------------------------------
(* The statistics of the last hour *)

\* the first message of GET /events
HeartbeatFirst(s, t) == Message("heartbeat", s, t)
InitialStats(s, t) == Message("stats", s, t)

\* GET /events: a client connects, its response is pushed to sseClients and is
\* sent the initial 'stats' event; the heartbeat interval is set
GetEvents ==
    /\ Serving
    /\ Len(hub.res) < MaxClients
    /\ stats' = getAggregatedStats(state, now)
    /\ LET r == Len(hub.res) + 1
       IN  hub' = [sseClients |-> Append(hub.sseClients, r),
                   res |-> Append(NextStep(hub).res,
                                  Write(NewResponse, InitialStats(state, now))),
                   tried |-> {r}]
    /\ resp' = Reply("GET /events", <<>>, 200, <<"stats">>)
    /\ UNCHANGED <<state, now, phase, fsVars>>

\* instants at which the server is asked: on a minute boundary, inside a minute
AskedAt == {60 * 60 * 1000, 60 * 60 * 1000 + 30 * 1000}

\* instants at which drinks were taken: around the boundaries of the minutes
\* and of the hour before AskedAt
TakenAt == {0, 29999, 30000, 45000, 60000, 119999, 60 * 60 * 1000 - 1,
            60 * 60 * 1000, 60 * 60 * 1000 + 30 * 1000}

\* the consumptions that POST /consume records at those instants
Taken == [drinkName : {"Beer", "Wine"}, participantId : {""}, at : TakenAt]

\* a serving process whose log was written, in the order of time, up to now
AggInit ==
    /\ now \in AskedAt
    /\ \E log \in UNION {[1..n -> Taken] : n \in 0..MaxConsumptions} :
           /\ \A i \in DOMAIN log : log[i].at <= now
           /\ \A i, j \in DOMAIN log : i < j => log[i].at <= log[j].at
           /\ state = [InitialState EXCEPT !.consumptions = log]
    /\ resp = NoReply
    /\ phase = "serving"
    /\ dirExists = FALSE
    /\ dir = <<>>
    /\ saver = [w \in Callers |-> IdleSaver]
    /\ restorer = IdleRestorer
    /\ audit = NoAudit
    /\ stats = <<>>
    /\ hub = NoHub

AggNext ==
    \/ GetEvents
    \/ \E drinkName \in {"Beer", "Wine"} : PostConsume(drinkName, "")

AggSpec == AggInit /\ [][AggNext]_vars

-----------------------------------------------------------------------------
(* The SSE clients of a serving process: they connect, are written to by the *)
(* handlers and by their heartbeat, lose their socket and go away            *)

\* the socket of response r, still open, is destroyed: res.write throws from now on
WriteFails(r) ==
    /\ Serving
    /\ r \in DOMAIN hub.res
    /\ ~hub.res[r].closed
    /\ ~hub.res[r].throws
    /\ hub' = [NextStep(hub) EXCEPT !.res[r].throws = TRUE]
    /\ resp' = Reply("error", <<r>>, 0, <<>>)
    /\ UNCHANGED <<state, now, phase, fsVars, stats>>

\* the heartbeat interval of response r fires: a write, clearInterval when it throws
Heartbeat(r) ==
    /\ Serving
    /\ r \in DOMAIN hub.res
    /\ hub.res[r].heartbeatInterval
    /\ hub' = [NextStep(hub) EXCEPT
           !.res[r] = IF @.throws THEN [@ EXCEPT !.heartbeatInterval = FALSE]
                      ELSE Write(@, Message("heartbeat", state, now)),
           !.tried = {r}]
    /\ resp' = Reply("heartbeat", <<r>>, 0, <<"heartbeat">>)
    /\ UNCHANGED <<state, now, phase, fsVars, stats>>

\* sseClients.filter(client => client !== res)
KeepAll(sseClients, r) == sseClients
Without(sseClients, r) == SelectSeq(sseClients, LAMBDA client : client # r)

\* req.on('close'): clearInterval, the response leaves sseClients
Close(r) ==
    /\ Serving
    /\ r \in DOMAIN hub.res
    /\ ~hub.res[r].closed
    /\ hub' = [NextStep(hub) EXCEPT
           !.res[r].heartbeatInterval = FALSE,
           !.res[r].closed = TRUE,
           !.sseClients = Without(@, r)]
    /\ resp' = Reply("close", <<r>>, 0, <<>>)
    /\ UNCHANGED <<state, now, phase, fsVars, stats>>

HubNext ==
    \/ GetEvents
    \/ \E r \in 1..MaxClients : WriteFails(r)
    \/ \E r \in 1..MaxClients : Heartbeat(r)
    \/ \E r \in 1..MaxClients : Close(r)
    \/ PostConsume("Beer", "")

HubSpec == Init /\ [][HubNext]_vars

-----------------------------------------------------------------------------
(* The awards. A mean error is kept as the pair of its total and its count,  *)
(* and a coverage is compared with a threshold in hundredths: the same       *)
(* order as the quotients the code compares                                  *)

Abs(x) == IF x < 0 THEN -x ELSE x

RECURSIVE Sum(_, _)
Sum(f, S) ==
    IF S = {} THEN 0
    ELSE LET x == CHOOSE y \in S : TRUE IN f[x] + Sum(f, S \ {x})

\* state.consumptions.filter(c => c.participantId === participantId).length
getParticipantDrinkCount(s, participantId) ==
    Cardinality({i \in DOMAIN s.consumptions :
                     s.consumptions[i].participantId = participantId})

\* Object.keys(predictionsMap): the predictors in the order of their first prediction
Predictors(s) ==
    LET firsts == {i \in DOMAIN s.predictions :
                       \A j \in 1..(i - 1) :
                           s.predictions[j].predictorId # s.predictions[i].predictorId}
        order == SortAsc(firsts)
    IN  [k \in DOMAIN order |-> s.predictions[order[k]].predictorId]

\* the stored predictions of predictorId about targetId
PredictionsOf(s, predictorId, targetId) ==
    {i \in DOMAIN s.predictions :
         /\ s.predictions[i].predictorId = predictorId
         /\ s.predictions[i].targetId = targetId}

\* predictionsMap[predictorId][targetId]: the last one stored wins
predictionsMap(s, predictorId, targetId) ==
    s.predictions[Max(PredictionsOf(s, predictorId, targetId))].predictedDrinks

\* Math.abs(preds[target.id] - actualDrinks[target.id])
Error(s, predictorId, targetId) ==
    Abs(predictionsMap(s, predictorId, targetId) - getParticipantDrinkCount(s, targetId))

ParticipantIdsOf(s) == [k \in DOMAIN s.participants |-> s.participants[k].id]

\* the participants the predictor has a prediction about
Covered(s, predictorId) ==
    {t \in Range(ParticipantIdsOf(s)) : PredictionsOf(s, predictorId, t) # {}}

\* predictorMAE[predictorId] = totalError / count
predictorMAE(s, predictorId) ==
    [total |-> Sum([t \in Covered(s, predictorId) |-> Error(s, predictorId, t)],
                   Covered(s, predictorId)),
     count |-> Cardinality(Covered(s, predictorId))]

\* a / b < c / d for positive counts
Less(a, b) == a.total * b.count < b.total * a.count

\* Object.keys(predictorMAE): the predictors with count > 0
Scored(s) == SelectSeq(Predictors(s), LAMBDA p : Covered(s, p) # {})

\* predictorCoverage[id] >= minCoverage, with coveredTargets / participants.length
CountsSelfOut(s, predictorId, hundredths) ==
    100 * Cardinality(Covered(s, predictorId)) >=
        hundredths * (Len(s.participants) - 1)
Covers(s, predictorId, hundredths) ==
    100 * Cardinality(Covered(s, predictorId)) >= hundredths * Len(s.participants)

\* minCoverage: 0.5, else 0.33, else 0.01
minCoverage(s) ==
    LET scored == Range(Scored(s))
    IN  IF \E p \in scored : Covers(s, p, 50) THEN 50
        ELSE IF \E p \in scored : Covers(s, p, 33) THEN 33
        ELSE 1

eligible(s) ==
    LET threshold == minCoverage(s)
    IN  SelectSeq(Scored(s), LAMBDA p : Covers(s, p, threshold))

\* winners.filter(p => p).map(p => ({ name: p.name, avatar: p.avatar })) of the
\* participants found for the ids
Winners(s, ids) ==
    LET found == SelectSeq(ids, LAMBDA id : id \in Range(ParticipantIdsOf(s)))
    IN  [k \in DOMAIN found |->
            s.participants[Find({i \in DOMAIN s.participants :
                                     s.participants[i].id = found[k]})].name]

Award(name, winners) == <<[name |-> name, winners |-> winners]>>

\* 1. Kotzstempel: highest actual drinks
KotzstempelNeedsDrinks(s) ==
    LET ids == ParticipantIdsOf(s)
        actualDrinks == [p \in Range(ids) |-> getParticipantDrinkCount(s, p)]
        kotzstempelWinners ==
            SelectSeq(ids, LAMBDA p : /\ actualDrinks[p] > 0
                                      /\ \A q \in Range(ids) :
                                             actualDrinks[q] <= actualDrinks[p])
    IN  IF Len(kotzstempelWinners) > 0
        THEN Award("Kotzstempel", Winners(s, kotzstempelWinners))
        ELSE <<>>
KotzstempelFirstOnly(s) ==
    LET ids == ParticipantIdsOf(s)
        actualDrinks == [p \in Range(ids) |-> getParticipantDrinkCount(s, p)]
        kotzstempelWinners ==
            SelectSeq(ids, LAMBDA p : \A q \in Range(ids) :
                actualDrinks[q] <= actualDrinks[p])
    IN  IF Len(kotzstempelWinners) > 0
        THEN Award("Kotzstempel", Winners(s, <<kotzstempelWinners[1]>>))
        ELSE <<>>
Kotzstempel(s) ==
    LET ids == ParticipantIdsOf(s)
        actualDrinks == [p \in Range(ids) |-> getParticipantDrinkCount(s, p)]
        kotzstempelWinners ==
            SelectSeq(ids, LAMBDA p : \A q \in Range(ids) :
                actualDrinks[q] <= actualDrinks[p])
    IN  IF Len(kotzstempelWinners) > 0
        THEN Award("Kotzstempel", Winners(s, kotzstempelWinners))
        ELSE <<>>

\* 2. Spuelsuechtigen: best predictor (lowest MAE)
Spuelsuechtigen(s) ==
    LET ids == eligible(s)
        mae == [p \in Range(ids) |-> predictorMAE(s, p)]
        spulsuchtigWinners ==
            SelectSeq(ids, LAMBDA p : \A q \in Range(ids) : ~Less(mae[q], mae[p]))
    IN  IF Len(ids) > 0 /\ Len(spulsuchtigWinners) > 0
        THEN Award("Spuelsuechtigen", Winners(s, spulsuchtigWinners))
        ELSE <<>>

\* the predictors with a prediction about the target
Crowd(s, targetId) ==
    {p \in Range(Predictors(s)) : PredictionsOf(s, p, targetId) # {}}

\* targetCrowdMAE[target.id] = totalError / count
targetCrowdMAE(s, targetId) ==
    [total |-> Sum([p \in Crowd(s, targetId) |-> Error(s, p, targetId)],
                   Crowd(s, targetId)),
     count |-> Cardinality(Crowd(s, targetId))]

\* if (count >= 2)
OnePredictorEnough(s, targetId) == Cardinality(Crowd(s, targetId)) >= 1
CrowdLargeEnough(s, targetId) == Cardinality(Crowd(s, targetId)) >= 2

\* 3. Stille Wasser sind tief: hardest to predict (highest crowd MAE)
StilleWasser(s) ==
    LET targets == SelectSeq(ParticipantIdsOf(s), LAMBDA t : CrowdLargeEnough(s, t))
        mae == [t \in Range(targets) |-> targetCrowdMAE(s, t)]
        stilleWasserWinners ==
            SelectSeq(targets, LAMBDA t : \A u \in Range(targets) : ~Less(mae[t], mae[u]))
    IN  IF Len(targets) > 0 /\ Len(stilleWasserWinners) > 0
        THEN Award("Stille Wasser sind tief", Winners(s, stilleWasserWinners))
        ELSE <<>>

\* 4. Schwarzer Peter: worst predictor (highest MAE)
SchwarzerPeter(s) ==
    LET ids == eligible(s)
        mae == [p \in Range(ids) |-> predictorMAE(s, p)]
        schwarzerPeterWinners ==
            SelectSeq(ids, LAMBDA p : \A q \in Range(ids) : ~Less(mae[p], mae[q]))
    IN  IF Len(ids) > 0 /\ Len(schwarzerPeterWinners) > 0
        THEN Award("Schwarzer Peter", Winners(s, schwarzerPeterWinners))
        ELSE <<>>

computeAwards(s) ==
    IF Len(s.participants) = 0 THEN <<>>
    ELSE Kotzstempel(s) \o Spuelsuechtigen(s) \o StilleWasser(s) \o SchwarzerPeter(s)

\* GET /api/awards
GetAwards ==
    /\ Serving
    /\ resp' = [Reply("GET /api/awards", <<>>, 200, <<>>) EXCEPT
                    !.body = computeAwards(state)]
    /\ UNCHANGED <<state, now, phase, fsVars, stats, hub>>

\* the people of the party, in the order they join
Players == <<[id |-> ParticipantIds[1], name |-> "Al", selfEstimate |-> 0],
             [id |-> ParticipantIds[2], name |-> "Bo", selfEstimate |-> 0],
             [id |-> ParticipantIds[3], name |-> "Cy", selfEstimate |-> 0]>>

\* what POST /api/predictions is sent as predictedDrinks
Guesses == {0, 1}

\* the n consumptions POST /api/consume-participant records for a participant
Drunk(id, n) == [k \in 1..n |-> [drinkName |-> "Beer", participantId |-> id, at |-> 0]]

\* the predictions POST /api/predictions stores for the pairs <<i, j>> of bets
\* (the i-th person about the j-th), with predictedDrinks guess[<<i, j>>]
Bets(bets, guess) ==
    LET order == SortAsc({3 * (b[1] - 1) + b[2] : b \in bets})
        Pair(k) == <<((order[k] - 1) \div 3) + 1, ((order[k] - 1) % 3) + 1>>
    IN  [k \in DOMAIN order |->
            [id |-> PredictionIds[k],
             predictorId |-> Players[Pair(k)[1]].id,
             targetId |-> Players[Pair(k)[2]].id,
             predictedDrinks |-> guess[Pair(k)]]]

\* the first n people have joined, have drunk drunk[i] each and the bets are placed
Party(n, drunk, bets, guess) ==
    [InitialState EXCEPT
        !.participants = SubSeq(Players, 1, n),
        !.consumptions = Drunk(Players[1].id, drunk[1]) \o Drunk(Players[2].id, drunk[2])
                             \o Drunk(Players[3].id, drunk[3]),
        !.predictions = Bets(bets, guess)]

\* two people: the first has had 4 drinks and bets 5 on the second, who has had
\* 5 and bets 3 on the first
TwoPlayerParty ==
    Party(2, <<4, 5, 0>>, {<<1, 2>>, <<2, 1>>}, [b \in {<<1, 2>>, <<2, 1>>} |->
                                                    IF b = <<1, 2>> THEN 5 ELSE 3])

\* a serving process in the middle of a party
AwardInit ==
    /\ \/ \E n \in 0..3 :
          \E drunk \in [1..3 -> 0..MaxDrunk] :
          \E bets \in SUBSET ((1..3) \X (1..3)) :
             /\ \A i \in 1..3 : i > n => drunk[i] = 0
             /\ Cardinality(bets) <= MaxBets
             /\ \E guess \in [bets -> Guesses] : state = Party(n, drunk, bets, guess)
       \/ state = TwoPlayerParty
    /\ now = 0
    /\ resp = NoReply
    /\ phase = "serving"
    /\ dirExists = FALSE
    /\ dir = <<>>
    /\ saver = [w \in Callers |-> IdleSaver]
    /\ restorer = IdleRestorer
    /\ audit = NoAudit
    /\ stats = <<>>
    /\ hub = NoHub

AwardNext == GetAwards

AwardSpec == AwardInit /\ [][AwardNext]_vars

-----------------------------------------------------------------------------
(* The predictions of a party in progress *)

\* two people have joined and up to MaxBets predictions are stored
BetInit ==
    /\ \E bets \in SUBSET ((1..2) \X (1..2)) :
           /\ Cardinality(bets) <= MaxBets
           /\ \E guess \in [bets -> Guesses] :
                  state = Party(2, <<0, 0, 0>>, bets, guess)
    /\ now = 0
    /\ resp = NoReply
    /\ phase = "serving"
    /\ dirExists = FALSE
    /\ dir = <<>>
    /\ saver = <<>>
    /\ restorer = <<>>
    /\ audit = <<>>
    /\ stats = <<>>
    /\ hub = NoHub

BetNext ==
    \/ \E p \in {"p1", "p2"}, t \in {"p1", "p2"}, d \in {<<-1>>, <<0>>, <<1>>} :
           PostPredictions(p, t, d)
    \/ \E locked \in BOOLEAN : PostLockPredictions(locked)

BetSpec == BetInit /\ [][BetNext]_vars

-----------------------------------------------------------------------------
(* The catalog and the consumption log on a serving process *)

CatalogNext ==
    \/ \E name \in DrinkNameInputs : PostDrinks(name)
    \/ \E drinkName \in ConsumeNameInputs, participantId \in IdInputs :
           PostConsume(drinkName, participantId)
    \/ \E drinkName \in ConsumeNameInputs, participantId \in IdInputs :
           PostConsumeParticipant(drinkName, participantId)
    \/ \E name \in {"Al", "Bo"} : PostParticipants(name, <<>>)

CatalogSpec == Init /\ [][CatalogNext]_vars

-----------------------------------------------------------------------------
(* The whole store of a serving process with its clients: every mutating     *)
(* handler, with a request it accepts and the requests it refuses            *)

\* a serving process to which one client has connected
StoreInit ==
    /\ state = InitialState
    /\ now = 0
    /\ resp = Reply("GET /events", <<>>, 200, <<"stats">>)
    /\ phase = "serving"
    /\ dirExists = FALSE
    /\ dir = <<>>
    /\ saver = <<>>
    /\ restorer = <<>>
    /\ audit = <<>>
    /\ stats = getAggregatedStats(InitialState, 0)
    /\ hub = [sseClients |-> <<1>>,
              res |-> <<Write(NewResponse, InitialStats(InitialState, 0))>>,
              tried |-> {1}]

StoreNext ==
    \/ \E name \in {"", "Beer", "Rum"} : PostDrinks(name)
    \/ \E drinkName \in {"", "Rum"} : PostConsume(drinkName, "")
    \/ \E participantId \in {"", "p1"} : PostConsumeParticipant("Beer", participantId)
    \/ \E label \in {"", "Pong"} : PostEvent(label)
    \/ \E passcode \in {"", "a"} : PostPasscode(passcode)
    \/ \E name \in {"", "Al"} : PostParticipants(name, <<>>)
    \/ \E id \in {"p1", "p2"} : PatchParticipant(id, <<0>>)
    \/ \E predictedDrinks \in {<<>>, <<0>>} : PostPredictions("p1", "p2", predictedDrinks)
    \/ \E locked \in BOOLEAN : PostLockPredictions(locked)

StoreSpec == StoreInit /\ [][StoreNext]_vars

-----------------------------------------------------------------------------
(* Properties of the prediction game (specification Spec) *)

\* a well-formed prediction of one registered participant about another
ValidPrediction(s, p, t, d) ==
    /\ p # "" /\ t # "" /\ p # t
    /\ d # <<>> /\ d[1] >= 0
    /\ \E i \in DOMAIN s.participants : s.participants[i].id = p
    /\ \E i \in DOMAIN s.participants : s.participants[i].id = t

HasPrediction(s, p, t, n) ==
    \E i \in DOMAIN s.predictions :
        /\ s.predictions[i].predictorId = p
        /\ s.predictions[i].targetId = t
        /\ s.predictions[i].predictedDrinks = n

\* C1: a valid prediction submission is answered with the lock rejection (403)
\* exactly when predictionsLocked is true at the time of the request, and then
\* the predictions are unchanged; whenever the lock is off (also after any
\* toggles) it is accepted and stored.
C1_LockGatesPredictions ==
    [][(/\ resp'.op = "POST /api/predictions"
        /\ ValidPrediction(state, resp'.req[1], resp'.req[2], resp'.req[3])) =>
           /\ (resp'.status = 403) <=> state.eventSettings.predictionsLocked
           /\ state.eventSettings.predictionsLocked =>
                  state'.predictions = state.predictions
           /\ ~state.eventSettings.predictionsLocked =>
                  /\ resp'.status \in {200, 201}
                  /\ HasPrediction(state', resp'.req[1], resp'.req[2],
                                   resp'.req[3][1])]_vars

\* a valid prediction was just rejected because of the lock, with an earlier
\* prediction (accepted while unlocked) still stored
C1_Witness ==
    /\ resp.op = "POST /api/predictions"
    /\ resp.status = 403
    /\ ValidPrediction(state, resp.req[1], resp.req[2], resp.req[3])
    /\ state.eventSettings.predictionsLocked
    /\ Len(state.predictions) > 0

\* C2: while predictionsLocked is true no operation changes any participant's
\* selfEstimate.
C2_LockedSelfEstimateFrozen ==
    [][state.eventSettings.predictionsLocked =>
          \A i \in DOMAIN state.participants :
              state'.participants[i].selfEstimate = state.participants[i].selfEstimate]_vars

\* C3: no stored prediction has predictorId = targetId.
C3_NoSelfPrediction ==
    \A i \in DOMAIN state.predictions :
        state.predictions[i].predictorId # state.predictions[i].targetId

\* C4: once passcodeHash is non-null no operation changes it.
C4_PasscodeWriteOnce ==
    [][state.eventSettings.passcodeHash # Null =>
          state'.eventSettings.passcodeHash = state.eventSettings.passcodeHash]_vars

-----------------------------------------------------------------------------
(* Properties of the snapshot manager (specifications SaveSpec, RestoreSpec) *)

\* the files of a directory that restore and retention take for snapshots
Recognised(d) == {n \in DOMAIN d : n.ext = "json"}

\* a complete JSON text with the three collections restore insists on
Valid(content) ==
    /\ content.kind = "json"
    /\ {"drinks", "consumptions", "events"} \subseteq content.fields

\* the call of saveSnapshot() by w returns its file name in this step
SaveSucceeds(w) ==
    /\ saver[w].pc \in {"readdir", "unlink"}
    /\ saver'[w].pc = "idle"
    /\ phase' = "serving"
    /\ w = "request" => resp'.status = 200

\* a call of restoreSnapshot() reads its file and returns in this step
RestoreCompletes ==
    /\ restorer.pc = "readFile"
    /\ restorer'.pc = "idle"
    /\ phase' # "down"

RestoredTrue == resp'.status \in {1, 200}

\* C5: whatever step of a save the process dies at, every snapshot that was in
\* the directory stays there with the same content (retention's own deletions
\* apart), and every file recognised as a snapshot holds a complete serialized
\* state.
C5_CrashSafeSave ==
    [][/\ \A n \in Recognised(dir) :
              IF n \in DOMAIN dir'
              THEN dir'[n] = dir[n]
              ELSE \E w \in Callers :
                       saver[w].pc = "unlink" /\ Head(saver[w].todo) = n
       /\ \A n \in Recognised(dir') : dir'[n].kind = "json"]_vars

C8_RetentionAfterEverySave ==
    [][/\ \A w \in Callers :
              SaveSucceeds(w) => Cardinality(Recognised(dir')) <= SNAPSHOT_MAX_FILES
       /\ \A n \in Recognised(dir) \ DOMAIN dir' :
              \A k \in Recognised(dir) : n.stamp <= k.stamp]_vars

\* C8, amended: when a save returns successfully and no other save is in
\* flight, at most SNAPSHOT_MAX_FILES snapshots exist; a snapshot is deleted
\* only when at least SNAPSHOT_MAX_FILES newer ones exist, so the newest
\* SNAPSHOT_MAX_FILES are always kept and retention never leaves fewer than
\* that once there were as many. (While two saves overlap, the one that
\* returns first can leave one more; of several files to delete the newest
\* goes first.)
C8_RetentionWhenQuiet ==
    [][/\ \A w \in Callers :
              (SaveSucceeds(w) /\ saver'[Other(w)].pc = "idle") =>
                  Cardinality(Recognised(dir')) <= SNAPSHOT_MAX_FILES
       /\ \A n \in Recognised(dir) \ DOMAIN dir' :
              Cardinality({k \in Recognised(dir') : k.stamp > n.stamp})
                  >= SNAPSHOT_MAX_FILES]_vars

\* a requested save has returned with nothing else in flight, retention has
\* deleted the oldest snapshot of the earlier run and exactly
\* SNAPSHOT_MAX_FILES are left
C8_Witness ==
    /\ resp.op = "POST /api/snapshot"
    /\ resp.status = 200
    /\ \A w \in Callers : saver[w].pc = "idle"
    /\ FinalName(-2) \notin DOMAIN dir
    /\ Cardinality(Recognised(dir)) = SNAPSHOT_MAX_FILES

\* C9 as stated: a restore puts the content of a snapshot in the place of the
\* store only while the process is starting.
C9_RestoreOnlyAtStartup ==
    [][(RestoreCompletes /\ RestoredTrue) => phase = "starting"]_vars

\* C9, amended: the store is replaced by the content of a snapshot only by
\* restoreSnapshot(), which start() calls before the server listens and which
\* POST /api/snapshot/restore calls while it is serving; saves, the timer and
\* the clock leave the store alone, and the other requests change it only by
\* their own mutation.
C9_RestoreAtStartupOrOnRequest ==
    [][state' # state =>
           \/ phase = "down" \/ phase' = "down"
           \/ /\ resp'.op = "POST /api/event-settings/lock-predictions"
              /\ state' = [state EXCEPT
                     !.eventSettings.predictionsLocked = resp'.req[1]]
           \/ /\ RestoreCompletes /\ RestoredTrue
              /\ restorer.who = "start" <=> phase = "starting"
              /\ restorer.who = "request" <=> phase = "serving"
              /\ LET content == dir[restorer.file]
                 IN  /\ state'.consumptions = content.doc.consumptions
                     /\ "eventSettings" \in content.fields =>
                            state'.eventSettings = content.doc.eventSettings]_vars

\* a restore asked for during service has put a saved store, with the lock
\* on, in the place of the live one
C9_Witness ==
    /\ resp.op = "POST /api/snapshot/restore"
    /\ resp.status = 200
    /\ phase = "serving"
    /\ state.eventSettings.predictionsLocked

-----------------------------------------------------------------------------
(* Properties of the statistics (specification AggSpec) *)

\* the count the statistics show for a drink in the bucket starting at an instant
Shown(st, start, drinkName) ==
    LET hits == {i \in DOMAIN st.buckets :
                     /\ st.buckets[i].timestamp = start
                     /\ drinkName \in DOMAIN st.buckets[i].drinks}
    IN  IF hits = {} THEN 0
        ELSE st.buckets[CHOOSE i \in hits : TRUE].drinks[drinkName]

\* the records of a drink taken in the window that belong to the bucket
InWindow(s, t, start, drinkName) ==
    {i \in DOMAIN s.consumptions :
         /\ s.consumptions[i].drinkName = drinkName
         /\ t - 60 * 60 * 1000 <= s.consumptions[i].at
         /\ s.consumptions[i].at <= t
         /\ (s.consumptions[i].at \div 60000) * 60000 = start}

\* C10: the statistics count each record with now-60min <= at <= now exactly
\* once, under its drink, in the bucket starting at floor(at / 60s) * 60s, and
\* count nothing else.
C10_WindowedCounts ==
    [][resp'.op = "GET /events" =>
           \A drinkName \in {"Beer", "Wine"} :
               \A start \in {(at \div 60000) * 60000 : at \in TakenAt} :
                   Shown(stats', start, drinkName) =
                       Cardinality(InWindow(state, now, start, drinkName))]_vars

\* C11: whatever the log (the empty one too), the statistics have exactly 60
\* buckets, in ascending order of their start, each starting one minute after
\* the one before, the last starting at floor(now / 60s) * 60s.
C11_SixtyBuckets ==
    [][resp'.op = "GET /events" =>
           /\ Len(stats'.buckets) = 60
           /\ \A i \in 1..59 :
                  stats'.buckets[i + 1].timestamp = stats'.buckets[i].timestamp + 60000
           /\ stats'.buckets[60].timestamp = (now \div 60000) * 60000]_vars

\* the statistics of an empty log were asked for in the middle of a minute
C11_Witness ==
    /\ resp.op = "GET /events"
    /\ state.consumptions = <<>>
    /\ now % 60000 # 0
    /\ Len(stats.buckets) = 60
    /\ \A i \in 1..60 : DOMAIN stats.buckets[i].drinks = {}

-----------------------------------------------------------------------------
(* Properties of the awards (specification AwardSpec) *)

AwardsAnswered == resp'.op = "GET /api/awards"

\* the award of that name is in the answer
Given(body, name) == \E i \in DOMAIN body : body[i].name = name

\* the participants named as winners of the award in the answer
WinnerIds(s, body, name) ==
    {s.participants[k].id : k \in
        {k \in DOMAIN s.participants :
             \E i \in DOMAIN body :
                 /\ body[i].name = name
                 /\ s.participants[k].name \in Range(body[i].winners)}}

\* the predictors that meet the coverage threshold of the ladder, when the
\* predicted participants are counted against all participants (apart = 0) or
\* against the participants other than the predictor (apart = 1)
EligibleBy(s, apart) ==
    LET scored == Range(Scored(s))
        others == Len(s.participants) - apart
        Meets(p, hundredths) ==
            100 * Cardinality(Covered(s, p)) >= hundredths * others
        rung == IF \E p \in scored : Meets(p, 50) THEN 50
                ELSE IF \E p \in scored : Meets(p, 33) THEN 33
                ELSE 1
    IN  {p \in scored : Meets(p, rung)}

\* the predictors of a set with the lowest (sign = 1) or the highest
\* (sign = -1) mean error
Extreme(s, among, sign) ==
    {p \in among : \A q \in among :
         IF sign = 1 THEN ~Less(predictorMAE(s, q), predictorMAE(s, p))
         ELSE ~Less(predictorMAE(s, p), predictorMAE(s, q))}

\* C12 as stated: eligibility goes by the predicted participants over the
\* participants other than the predictor; the best and the worst predictor
\* are taken among the predictors eligible in that sense.
C12_CoverageOverOthers ==
    [][AwardsAnswered =>
           LET among == EligibleBy(state, 1)
               joined == Range(ParticipantIdsOf(state))
           IN  state.participants # <<>> =>
               /\ WinnerIds(state, resp'.body, "Spuelsuechtigen") =
                      Extreme(state, among, 1) \cap joined
               /\ WinnerIds(state, resp'.body, "Schwarzer Peter") =
                      Extreme(state, among, -1) \cap joined]_vars

\* C12, amended: a predictor's coverage is the number of participants they
\* have a prediction about divided by the number of all participants, the
\* predictor included; a predictor is eligible at a threshold exactly when
\* that fraction is >= it, and the best and the worst predictor are the
\* participants among the eligible predictors of lowest and highest mean error.
C12_CoverageOverAll ==
    [][AwardsAnswered =>
           LET among == EligibleBy(state, 0)
               joined == Range(ParticipantIdsOf(state))
           IN  state.participants # <<>> =>
               /\ Range(eligible(state)) = among
               /\ Given(resp'.body, "Spuelsuechtigen") <=> among # {}
               /\ WinnerIds(state, resp'.body, "Spuelsuechtigen") =
                      Extreme(state, among, 1) \cap joined
               /\ WinnerIds(state, resp'.body, "Schwarzer Peter") =
                      Extreme(state, among, -1) \cap joined]_vars

\* three participants: one predicted one of the two others and has the lowest
\* mean error of all, yet is not the best predictor, because another predictor
\* covers half of all three and this one, with a third, does not
C12_Witness ==
    /\ resp.op = "GET /api/awards"
    /\ Len(state.participants) = 3
    /\ \E p \in Range(ParticipantIdsOf(state)) :
           /\ Cardinality(Covered(state, p)) = 1
           /\ p \notin Covered(state, p)
           /\ p \in EligibleBy(state, 1)
           /\ p \notin EligibleBy(state, 0)
           /\ \A q \in Range(Scored(state)) \ {p} :
                  Less(predictorMAE(state, p), predictorMAE(state, q))
           /\ p \notin WinnerIds(state, resp.body, "Spuelsuechtigen")
           /\ WinnerIds(state, resp.body, "Spuelsuechtigen") # {}

\* C13: whenever the store holds a prediction, the awards include the best
\* predictor award with at least one winner.
C13_BestPredictorAlwaysAwarded ==
    [][(AwardsAnswered /\ state.predictions # <<>>) =>
           \E i \in DOMAIN resp'.body :
               /\ resp'.body[i].name = "Spuelsuechtigen"
               /\ resp'.body[i].winners # <<>>]_vars

\* the mean of |predicted - actual| over all the targets a predictor predicted
MeanError(s, predictorId) ==
    LET targets == {s.predictions[i].targetId : i \in
                        {i \in DOMAIN s.predictions :
                             s.predictions[i].predictorId = predictorId}}
    IN  [total |-> Sum([t \in targets |-> Error(s, predictorId, t)], targets),
         count |-> Cardinality(targets)]

\* C14: the best predictor winners are exactly the eligible predictors of
\* minimal mean absolute error, the worst predictor winners exactly those of
\* the same eligible set of maximal mean absolute error, the error being the
\* mean of |predicted - actual| over the targets the predictor predicted.
C14_BestAndWorstPredictor ==
    [][(AwardsAnswered /\ state.participants # <<>>) =>
           LET among == Range(eligible(state))
               best == {p \in among : \A q \in among :
                            ~Less(MeanError(state, q), MeanError(state, p))}
               worst == {p \in among : \A q \in among :
                             ~Less(MeanError(state, p), MeanError(state, q))}
           IN  /\ WinnerIds(state, resp'.body, "Spuelsuechtigen") = best
               /\ WinnerIds(state, resp'.body, "Schwarzer Peter") = worst]_vars

\* every stored prediction is exactly its target's number of drinks
AllExact(s) ==
    \A i \in DOMAIN s.predictions :
        s.predictions[i].predictedDrinks =
            getParticipantDrinkCount(s, s.predictions[i].targetId)

\* C15: when every stored prediction equals its target's actual count, the
\* best and the worst predictor winners are the same set, the set of all
\* eligible predictors.
C15_AllExactAllTied ==
    [][(AwardsAnswered /\ state.participants # <<>> /\ AllExact(state)) =>
           /\ WinnerIds(state, resp'.body, "Spuelsuechtigen") = Range(eligible(state))
           /\ WinnerIds(state, resp'.body, "Schwarzer Peter") = Range(eligible(state))]_vars

\* C16: without participants no award is returned; with participants and no
\* prediction the most-consumed award is returned and nothing else.
C16_AwardsWithoutPredictions ==
    [][AwardsAnswered =>
           /\ state.participants = <<>> => resp'.body = <<>>
           /\ (state.participants # <<>> /\ state.predictions = <<>>) =>
                  /\ Len(resp'.body) = 1
                  /\ resp'.body[1].name = "Kotzstempel"
                  /\ resp'.body[1].winners # <<>>]_vars

\* participants who have not drunk and no prediction: the answer is the
\* most-consumed award alone
C16_Witness ==
    /\ resp.op = "GET /api/awards"
    /\ state.participants # <<>>
    /\ state.predictions = <<>>
    /\ state.consumptions = <<>>
    /\ Len(resp.body) = 1
    /\ resp.body[1].name = "Kotzstempel"

\* the participants whose number of drinks nobody exceeds
MostConsumed(s) ==
    {p \in Range(ParticipantIdsOf(s)) :
         \A q \in Range(ParticipantIdsOf(s)) :
             getParticipantDrinkCount(s, q) <= getParticipantDrinkCount(s, p)}

\* C17: the winners of the most-consumed award are exactly the participants
\* whose own count is the maximum over the participants: all of those who
\* tie, nobody else, also when every count is 0.
C17_MostConsumedKeepsTies ==
    [][(AwardsAnswered /\ state.participants # <<>>) =>
           /\ resp'.body[1].name = "Kotzstempel"
           /\ WinnerIds(state, resp'.body, "Kotzstempel") = MostConsumed(state)
           /\ Len(resp'.body[1].winners) = Cardinality(MostConsumed(state))]_vars

\* three participants, two tied at the top with a drink each, both winners
\* and the third not
C17_Witness ==
    /\ resp.op = "GET /api/awards"
    /\ Len(state.participants) = 3
    /\ Cardinality(MostConsumed(state)) = 2
    /\ state.consumptions # <<>>
    /\ WinnerIds(state, resp.body, "Kotzstempel") = MostConsumed(state)

\* the stored predictions about a participant
About(s, targetId) ==
    {i \in DOMAIN s.predictions : s.predictions[i].targetId = targetId}

\* the participants that at least n predictors have predicted
PredictedBy(s, n) ==
    {t \in Range(ParticipantIdsOf(s)) :
         Cardinality({s.predictions[i].predictorId : i \in About(s, t)}) >= n}

\* the mean of |predicted - actual| over the predictions about a participant
CrowdError(s, targetId) ==
    [total |-> Sum([i \in About(s, targetId) |->
                        Abs(s.predictions[i].predictedDrinks -
                            getParticipantDrinkCount(s, targetId))],
                   About(s, targetId)),
     count |-> Cardinality(About(s, targetId))]

-----------------------------------------------------------------------------
(* Properties of the catalog and the consumption log (specification          *)
(* CatalogSpec)                                                              *)

\* two names that differ at most in the case of their letters
SameIgnoringCase(a, b) ==
    \/ a = b
    \/ \E class \in {{"Beer", "beer"}, {"Rum", "rum"}} : {a, b} \subseteq class

\* C19: adding a catalog item whose name equals an existing item's name
\* ignoring case is answered 409 and leaves the catalog unchanged.
C19_DuplicateDrinkRejected ==
    [][(/\ resp'.op = "POST /drinks"
        /\ resp'.req[1] # ""
        /\ \E i \in DOMAIN state.drinks :
               SameIgnoringCase(state.drinks[i], resp'.req[1])) =>
           /\ resp'.status = 409
           /\ state'.drinks = state.drinks]_vars

\* "rum" was added to the six seeded drinks and "Rum" then refused
C19_Witness ==
    /\ resp = Reply("POST /drinks", <<"Rum">>, 409, <<>>)
    /\ state.drinks = SeedDrinks \o <<"rum">>

\* C20: every consumption record names an existing catalog item and, when it
\* has a participantId, an existing participant; an add-consumption request
\* that names an unknown item or an unknown participant is answered 404 and
\* appends nothing.
C20_ConsumptionsReference ==
    [][/\ \A i \in DOMAIN state'.consumptions :
              /\ state'.consumptions[i].drinkName \in Range(state'.drinks)
              /\ state'.consumptions[i].participantId # "" =>
                     state'.consumptions[i].participantId
                         \in Range(ParticipantIdsOf(state'))
       /\ (/\ resp'.op \in {"POST /consume", "POST /api/consume-participant"}
           /\ resp'.req[1] # ""
           /\ resp'.op = "POST /api/consume-participant" => resp'.req[2] # ""
           /\ \/ resp'.req[1] \notin Range(state.drinks)
              \/ /\ resp'.req[2] # ""
                 /\ resp'.req[2] \notin Range(ParticipantIdsOf(state))) =>
              /\ resp'.status = 404
              /\ state'.consumptions = state.consumptions]_vars

-----------------------------------------------------------------------------
(* Properties of the predictions and the participants (specifications Spec,  *)
(* BetSpec)                                                                  *)

\* C21: every stored prediction references two existing participants (a
\* prediction whose predictorId or targetId is no participant's id is
\* rejected and not stored).
C21_PredictionsReferenceParticipants ==
    \A i \in DOMAIN state.predictions :
        /\ state.predictions[i].predictorId \in Range(ParticipantIdsOf(state))
        /\ state.predictions[i].targetId \in Range(ParticipantIdsOf(state))

\* the stored predictions of predictor p about target t
ForPair(s, p, t) ==
    {i \in DOMAIN s.predictions :
         s.predictions[i].predictorId = p /\ s.predictions[i].targetId = t}

\* C22: at most one prediction exists per (predictorId, targetId) pair; an
\* accepted submission for a stored pair replaces predictedDrinks in place and
\* keeps the prediction's id and the size of the collection.
C22_PredictionUpsert ==
    [][/\ \A i, j \in DOMAIN state'.predictions :
              ( /\ state'.predictions[i].predictorId = state'.predictions[j].predictorId
                /\ state'.predictions[i].targetId = state'.predictions[j].targetId )
              => i = j
       /\ (/\ resp'.op = "POST /api/predictions"
           /\ resp'.status \in {200, 201}) =>
              LET p == resp'.req[1]
                  t == resp'.req[2]
                  d == resp'.req[3][1]
              IN  /\ Cardinality(ForPair(state', p, t)) = 1
                  /\ \A i \in ForPair(state', p, t) :
                         state'.predictions[i].predictedDrinks = d
                  /\ ForPair(state, p, t) # {} =>
                         /\ Len(state'.predictions) = Len(state.predictions)
                         /\ \A i \in DOMAIN state.predictions :
                                state'.predictions[i] =
                                    IF i \in ForPair(state, p, t)
                                    THEN [state.predictions[i] EXCEPT !.predictedDrinks = d]
                                    ELSE state.predictions[i]]_vars

\* three predictions are stored and the second one, of p1 about p2, was just
\* resubmitted with another number
C22_Witness ==
    /\ resp = Reply("POST /api/predictions", <<"p1", "p2", <<1>>>>, 200,
                    <<"prediction-updated">>)
    /\ Len(state.predictions) = 3
    /\ state.predictions[2] = [id |-> PredictionIds[2], predictorId |-> "p1",
                               targetId |-> "p2", predictedDrinks |-> 1]

\* two participant names that are equal, trimmed and ignoring case
SameName(a, b) ==
    \E class \in {{"Al", "al", " al"}, {"Bo"}} : {a, b} \subseteq class

\* C23: registering a participant whose trimmed name equals an existing
\* participant's name ignoring case updates that participant in place (the
\* number of participants and the participant's id are unchanged), and no two
\* participants share a name ignoring case.
C23_ParticipantUpsert ==
    [][/\ \A i, j \in DOMAIN state'.participants :
              SameName(state'.participants[i].name, state'.participants[j].name)
              => i = j
       /\ (/\ resp'.op = "POST /api/participants"
           /\ \E i \in DOMAIN state.participants :
                  SameName(state.participants[i].name, resp'.req[1])) =>
              /\ resp'.status = 200
              /\ Len(state'.participants) = Len(state.participants)
              /\ \A i \in DOMAIN state.participants :
                     /\ state'.participants[i].id = state.participants[i].id
                     /\ state'.participants[i].name = state.participants[i].name
                     /\ state'.participants[i].selfEstimate =
                            IF /\ SameName(state.participants[i].name, resp'.req[1])
                               /\ resp'.req[2] # <<>>
                            THEN resp'.req[2][1]
                            ELSE state.participants[i].selfEstimate]_vars

\* Al and Bo have joined, and " al" then registered again with an estimate of 1
C23_Witness ==
    /\ resp = Reply("POST /api/participants", <<" al", <<1>>>>, 200,
                    <<"participant-updated">>)
    /\ Len(state.participants) = 2
    /\ state.participants[1] = [id |-> "p1", name |-> "Al", selfEstimate |-> 1]
    /\ state.participants[2].name = "Bo"

-----------------------------------------------------------------------------
(* Properties of the whole store (specification StoreSpec) *)

\* seq continues the sequence old
Extends(seq, old) ==
    /\ Len(seq) >= Len(old)
    /\ SubSeq(seq, 1, Len(old)) = old

AddConsumption == {"POST /consume", "POST /api/consume-participant"}
AddMarker == {"POST /event"}
Mutations ==
    AddConsumption \cup AddMarker \cup
    {"POST /drinks", "POST /api/participants", "PATCH /api/participants/:id",
     "POST /api/predictions", "POST /api/passcode",
     "POST /api/event-settings/lock-predictions"}

\* C24: across every mutation kind the consumption log and the marker log
\* only grow: every existing record stays unchanged and in place, an accepted
\* add-consumption and an accepted add-marker append exactly one record to
\* their own log, and every other mutation leaves both logs unchanged.
C24_LogsAppendOnly ==
    [][/\ Extends(state'.consumptions, state.consumptions)
       /\ Extends(state'.events, state.events)
       /\ Len(state'.consumptions) =
              IF resp'.op \in AddConsumption /\ resp'.status = 201
              THEN Len(state.consumptions) + 1 ELSE Len(state.consumptions)
       /\ Len(state'.events) =
              IF resp'.op \in AddMarker /\ resp'.status = 201
              THEN Len(state.events) + 1 ELSE Len(state.events)]_vars

\* a consumption and a marker are logged, and the lock was toggled afterwards
C24_Witness ==
    /\ resp.op = "POST /api/event-settings/lock-predictions"
    /\ Len(state.consumptions) = 2
    /\ Len(state.events) = 1
    /\ Len(state.predictions) = 1
    /\ Len(state.participants) = 1

Rejections == {400, 403, 404, 409}

\* C25: a rejected mutation request (400, 403, 404, 409) leaves every
\* collection and the settings of the store unchanged and publishes no message
\* to any subscriber.
C25_RejectionsChangeNothing ==
    [][(resp'.op \in Mutations /\ resp'.status \in Rejections) =>
           /\ state' = state
           /\ resp'.events = <<>>
           /\ hub'.tried = {}
           /\ hub'.res = NextStep(hub).res
           /\ hub'.sseClients = hub.sseClients]_vars

\* a self-estimate update was refused because of the lock while a client was
\* connected that had been sent the statistics of an earlier consumption
C25_Witness ==
    /\ resp = Reply("PATCH /api/participants/:id", <<"p1", <<0>>>>, 403, <<>>)
    /\ hub.sseClients = <<1>>
    /\ hub.res[1].last.event = "stats"
    /\ Len(state.consumptions) > 0

-----------------------------------------------------------------------------
(* Properties of the SSE hub (specification HubSpec) *)

\* C26: the first message written to a newly subscribed response is a stats
\* message holding the aggregate of the store at subscribe time; no other
\* message reaches the response before it.
C26_FirstMessageIsStats ==
    [][/\ \A r \in DOMAIN hub'.res : hub'.res[r].first # <<>>
       /\ \A r \in DOMAIN hub.res : hub'.res[r].first = hub.res[r].first
       /\ Len(hub'.res) > Len(hub.res) =>
              /\ Len(hub'.res) = Len(hub.res) + 1
              /\ Len(hub'.res) \in Range(hub'.sseClients)
              /\ hub'.res[Len(hub'.res)].first =
                     [event |-> "stats", data |-> getAggregatedStats(state, now)]]_vars

\* a client connected after a Beer was logged, and was sent something since
C26_Witness ==
    /\ Len(hub.res) = 1
    /\ DOMAIN hub.res[1].first.data.buckets[60].drinks = {"Beer"}
    /\ hub.res[1].last # hub.res[1].first

\* C27: when a write to a response fails during a publish or a heartbeat, the
\* response is removed from sseClients.
C27_FailedWriteRemovesClient ==
    [][\A r \in DOMAIN hub.res :
           (r \in hub'.tried /\ hub.res[r].throws) =>
               r \notin Range(hub'.sseClients)]_vars

\* C28: when the write to one client fails during a publish, every other
\* client still receives the message, and the mutation commits and answers
\* success.
C28_FailedWriteIsIsolated ==
    [][(/\ resp'.op = "POST /consume"
        /\ resp'.req[1] \in Range(state.drinks)
        /\ \E r \in Range(hub.sseClients) : hub.res[r].throws) =>
           /\ resp'.status = 201
           /\ state'.consumptions =
                  Append(state.consumptions,
                         [drinkName |-> resp'.req[1], participantId |-> "", at |-> now])
           /\ hub'.tried = Range(hub.sseClients)
           /\ hub'.sseClients = hub.sseClients
           /\ \A r \in Range(hub.sseClients) :
                  ~hub.res[r].throws =>
                      hub'.res[r].last =
                          [event |-> "stats", data |-> getAggregatedStats(state', now)]]_vars

\* the first client's socket is gone, the second one was just sent the
\* statistics of a Beer
C28_Witness ==
    /\ resp = Reply("POST /consume", <<"Beer", "">>, 201, <<"consumption", "stats">>)
    /\ hub.sseClients = <<1, 2>>
    /\ hub.res[1].throws
    /\ hub.res[1].last.data # hub.res[2].last.data
    /\ hub.res[2].last = [event |-> "stats", data |-> getAggregatedStats(state, now)]

\* C29: after a client's connection closes its response is no longer in
\* sseClients and no later publish or heartbeat writes to it; the other
\* clients' responses are unaffected.
C29_ClosedClientIsGone ==
    [][\A r \in DOMAIN hub.res :
           /\ hub.res[r].closed =>
                  /\ r \notin Range(hub'.sseClients)
                  /\ r \notin hub'.tried
                  /\ hub'.res[r] = hub.res[r]
                  /\ hub'.res[r].burst = <<>>
           /\ (resp'.op = "close" /\ resp'.req = <<r>> /\ ~hub.res[r].closed) =>
                  /\ hub'.res[r].closed
                  /\ r \notin Range(hub'.sseClients)
                  /\ \A q \in DOMAIN hub.res \ {r} :
                         /\ hub'.res[q] = [hub.res[q] EXCEPT !.burst = <<>>]
                         /\ q \in Range(hub'.sseClients) <=> q \in Range(hub.sseClients)]_vars

\* the first client has closed; a Beer was then published to the second only
C29_Witness ==
    /\ resp = Reply("POST /consume", <<"Beer", "">>, 201, <<"consumption", "stats">>)
    /\ hub.sseClients = <<2>>
    /\ hub.res[1].closed
    /\ hub.tried = {2}
    /\ hub.res[1].last # hub.res[2].last

-----------------------------------------------------------------------------
(* Properties of the snapshot timer (specification SaveSpec) *)

\* C30: a failure of the timer-driven snapshot save is logged and does not
\* terminate the process: the process is still serving after it.
C30_TimerSaveFailureSurvived ==
    [][(/\ phase = "serving"
        /\ InFlight("timer")
        /\ resp' = Reply("timer", <<>>, 0, <<>>)) =>
           phase' = "serving"]_vars

-----------------------------------------------------------------------------
(* Properties of what the clients are sent (specifications StoreSpec,        *)
(* HubSpec, CatalogSpec)                                                     *)

Sensitive == {"participant-added", "participant-updated",
              "prediction-added", "prediction-updated"}

\* C31: a subscriber that has not authenticated (GET /events asks for no
\* authentication, so every subscriber) is sent no participant or prediction
\* message, and the consumption messages it is sent carry no participantId.
C31_NothingSensitiveSent ==
    [][\A r \in DOMAIN hub'.res :
           \A i \in DOMAIN hub'.res[r].burst :
               LET message == hub'.res[r].burst[i]
               IN  /\ message.event \notin Sensitive
                   /\ message.event = "consumption" =>
                          message.data.participantId = ""]_vars

\* C32: a consumption recorded through POST /consume with the id of a
\* participant carries that id, and the participant's drink count grows by one.
C32_ConsumeStoresParticipant ==
    [][(/\ resp'.op = "POST /consume"
        /\ resp'.status = 201
        /\ Len(state'.consumptions) = Len(state.consumptions) + 1
        /\ resp'.req[2] \in Range(ParticipantIdsOf(state))) =>
           /\ state'.consumptions[Len(state'.consumptions)].participantId = resp'.req[2]
           /\ getParticipantDrinkCount(state', resp'.req[2]) =
                  getParticipantDrinkCount(state, resp'.req[2]) + 1]_vars

\* the events of the messages of a burst
EventsOf(burst) == [i \in DOMAIN burst |-> burst[i].event]

\* how many records of the log name the drink and fall in the minute of t
CountedAt(s, drinkName, t) ==
    Cardinality({i \in DOMAIN s.consumptions :
                     /\ s.consumptions[i].drinkName = drinkName
                     /\ s.consumptions[i].at \div 60000 = t \div 60000})

\* C35: every connected subscriber receives, for each committed consumption,
\* a consumption message immediately followed by a stats message whose buckets
\* already count that record; the messages of one mutation reach a subscriber
\* together and in the order of the handler, never mixed with another's.
C35_ConsumptionThenStats ==
    [][\A r \in Range(hub'.sseClients) :
           (resp'.op \in Mutations /\ ~hub.res[r].throws) =>
               /\ EventsOf(hub'.res[r].burst) = resp'.events
               /\ (/\ resp'.op \in AddConsumption
                   /\ resp'.status = 201) =>
                      LET record == state'.consumptions[Len(state'.consumptions)]
                          burst == hub'.res[r].burst
                      IN  /\ Len(state'.consumptions) = Len(state.consumptions) + 1
                          /\ Len(burst) = 2
                          /\ burst[1] = [event |-> "consumption", data |-> record]
                          /\ burst[2].event = "stats"
                          /\ burst[2].data.buckets[60].drinks[record.drinkName] =
                                 CountedAt(state', record.drinkName, now)]_vars

\* the client was just sent the second Beer of Al and statistics that count two
C35_Witness ==
    /\ resp = Reply("POST /api/consume-participant", <<"Beer", "p1">>, 201,
                    <<"consumption", "stats">>)
    /\ hub.sseClients = <<1>>
    /\ Len(hub.res[1].burst) = 2
    /\ hub.res[1].burst[1].data.participantId = "p1"
    /\ hub.res[1].burst[2].data.buckets[60].drinks["Beer"] = 2

\* C39: a response is in sseClients exactly when its heartbeat interval is
\* set.
C39_SubscribedIffHeartbeat ==
    \A r \in DOMAIN hub.res :
        r \in Range(hub.sseClients) <=> hub.res[r].heartbeatInterval

-----------------------------------------------------------------------------
(* Properties of the stored values (specifications CatalogSpec, BetSpec) *)

\* C36: no two catalog items have names that are equal ignoring case, also
\* when a name was submitted with surrounding whitespace and stored trimmed.
C36_DrinkNamesUnique ==
    \A i, j \in DOMAIN state.drinks :
        SameIgnoringCase(state.drinks[i], state.drinks[j]) => i = j

\* C37: each participant's selfEstimate and each prediction's predictedDrinks
\* is an integer >= 0.
C37_EstimatesAreNaturals ==
    /\ \A i \in DOMAIN state.participants : state.participants[i].selfEstimate \in Nat
    /\ \A i \in DOMAIN state.predictions : state.predictions[i].predictedDrinks \in Nat

-----------------------------------------------------------------------------
(* Properties of restoreSnapshot() (specification RestoreSpec) *)

\* the default settings given to a store whose artifact has none
DefaultSettings == [passcodeHash |-> Null, predictionsLocked |-> FALSE]

\* C33: restoring an artifact that lacks participants, predictions or the
\* settings succeeds; each collection the artifact lacks is empty afterwards,
\* settings it lacks are {passcodeHash: null, predictionsLocked: false}, and
\* drinks, consumptions and events are those of the artifact.
C33_DefaultsForMissingFields ==
    [][(/\ RestoreCompletes
        /\ restorer.file \in DOMAIN dir
        /\ Valid(dir[restorer.file])
        /\ dir[restorer.file].fields # Fields) =>
           LET content == dir[restorer.file]
           IN  /\ RestoredTrue
               /\ state'.drinks = content.doc.drinks
               /\ state'.consumptions = content.doc.consumptions
               /\ state'.events = content.doc.events
               /\ "participants" \notin content.fields => state'.participants = <<>>
               /\ "predictions" \notin content.fields => state'.predictions = <<>>
               /\ "eventSettings" \notin content.fields =>
                      state'.eventSettings = DefaultSettings]_vars

\* a restore asked for while the predictions were locked has loaded the
\* artifact of the earlier version: the consumption is back, nobody takes part
\* and the lock is off
C33_Witness ==
    /\ resp = Reply("POST /api/snapshot/restore", <<>>, 200, <<"stats">>)
    /\ \E n \in Recognised(dir) :
           /\ \A k \in Recognised(dir) : k.stamp <= n.stamp
           /\ dir[n] = LegacyArtifact
    /\ state.consumptions = EarlierState.consumptions
    /\ state.participants = <<>>
    /\ state.predictions = <<>>
    /\ state.eventSettings = DefaultSettings

\* a call of restoreSnapshot() returns in this step
RestoreEnds ==
    /\ restorer'.pc = "idle"
    /\ phase' # "down"
    /\ \/ restorer.pc \in {"readdir", "readFile"}
       \/ restorer.pc = "idle" /\ resp'.op \in {"start", "POST /api/snapshot/restore"}
                               /\ (resp' # resp \/ phase' # phase)

\* what makes it fail: no directory, no snapshot in it, the latest snapshot
\* gone, no JSON text, or without drinks, consumptions or events
RestoreFails ==
    \/ restorer.pc = "idle" /\ ~dirExists
    \/ restorer.pc = "readdir" /\ Recognised(dir) = {}
    \/ restorer.pc = "readFile" /\ ~(restorer.file \in DOMAIN dir /\ Valid(dir[restorer.file]))

\* C40: a restore that fails returns false (start-up goes on with the initial
\* state, the request is answered 404), leaves the store as it was before the
\* call and publishes no stats message.
C40_FailedRestoreChangesNothing ==
    [][(RestoreEnds /\ RestoreFails) =>
           /\ ~RestoredTrue
           /\ resp'.events = <<>>
           /\ hub' = NextStep(hub)
           /\ phase = "serving" => state' = state
           /\ phase = "down" => state' = InitialState]_vars

\* a restore asked for while the predictions were locked found the latest
\* snapshot unusable: 404, the lock is still on
C40_Witness ==
    /\ resp = Reply("POST /api/snapshot/restore", <<>>, 404, <<>>)
    /\ state.eventSettings.predictionsLocked
    /\ \E n \in Recognised(dir) :
           /\ \A k \in Recognised(dir) : k.stamp <= n.stamp
           /\ ~Valid(dir[n])

-----------------------------------------------------------------------------
(* Properties of concurrent saves (specification SaveSpec) *)

\* the call of saveSnapshot() by w throws in this step
SaveFails(w) ==
    /\ InFlight(w)
    /\ saver'[w].pc = "idle"
    /\ \/ w = "request" /\ resp' = Reply("POST /api/snapshot", <<>>, 500, <<>>)
       \/ w = "timer" /\ resp' = Reply("timer", <<>>, 0, <<>>)

\* the call by w has opened its temporary file and has not returned yet
Writing(w) == saver[w].pc \in {"writeFile", "rename", "readdir", "unlink"}

\* C34: the artifact a save leaves is the text of the store at one instant of
\* the save (the instant writeFile was called), whatever is committed while the
\* file operations are pending, and a mutation stays possible during a save.
C34_PointInTimeArtifact ==
    [][\A w \in Callers :
           /\ SaveSucceeds(w) =>
                  /\ FinalName(saver[w].stamp) \in DOMAIN dir'
                  /\ dir'[FinalName(saver[w].stamp)] = saver[w].data
           /\ (InFlight(w) /\ Serving) =>
                  \A locked \in BOOLEAN : ENABLED PostLockPredictions(locked)]_vars

\* C38: a timer save and a requested save that overlap, or begin in the same
\* millisecond, both return successfully, each with an artifact of its own that
\* the other leaves in place, and at most SNAPSHOT_MAX_FILES snapshots exist
\* once both have returned.
C38_OverlappingSavesSucceed ==
    [][\A w \in Callers :
           /\ ~SaveFails(w)
           /\ (Writing(w) /\ Writing(Other(w))) => saver[w].stamp # saver[Other(w)].stamp
           /\ (SaveSucceeds(w) /\ ~audit.alone[w]) =>
                  /\ FinalName(saver[w].stamp) \in DOMAIN dir'
                  /\ saver'[Other(w)].pc = "idle" =>
                         Cardinality(Recognised(dir')) <= SNAPSHOT_MAX_FILES]_vars

====
